---- MODULE Spec2Model ----
(***************************************************************************)
(* vite-plugin-deploy-s3: the writeBundle hook of src/src/main.ts, which   *)
(* synchronises the build output directory with an S3 bucket through a     *)
(* manifest (fingerprints.json) kept in the bucket itself.                 *)
(*                                                                         *)
(* One pass of writeBundle is a sequence of awaited remote calls; every    *)
(* remote call is one action, and the store's answer to it (success, a     *)
(* named S3 error, any other failure) is the action's input.  Between two  *)
(* passes the build may rewrite the output directory (Build).              *)
(***************************************************************************)
EXTENDS Integers, Sequences, FiniteSets, TLC

\* Bound: the number of writeBundle passes of one behaviour.
MaxPasses == 2

\* The files a build may leave in the output directory (relative paths) and
\* the byte contents a file may have.  File contents are opaque bytes that
\* are not JSON text.
RelPaths == {"about", "about.html", "fingerprints.json"}
Contents == {"c1", "c2"}

\* configResolved: the absolute, normalised output directory.
OutDir == "/dist"

\* options.s3.prefix
Prefix == "site"

\* DeployOptions.deleteUseTag as the caller passes it: left out, a string,
\* or an object { key, value }
NoTagOption == [type |-> "undefined", text |-> "", key |-> "", value |-> ""]

StringTagOption(s) == [type |-> "string", text |-> s, key |-> "", value |-> ""]

ObjectTagOption(tagKey, tagValue) ==
    [type |-> "object", text |-> "", key |-> tagKey, value |-> tagValue]

\* DeployOptions.s3 with every field set
ValidS3 ==
    [bucket |-> "b", region |-> "r", accessKeyId |-> "id",
     secretAccessKey |-> "secret", endpoint |-> "https://{bucket}.example.com",
     prefix |-> Prefix]

VARIABLES
    options,          \* DeployOptions: s3, cleanHtmlSuffix, deleteUseTag, gzip
    deleteUseTag,     \* deploy's deleteUseTag: <<>> (undefined) or <<[key, value]>>
    local,            \* the output directory: relative path -> contents
    bucket,           \* the S3 bucket: object key -> object
    pc,               \* position of writeBundle
    files,            \* getFiles(): absolute paths, in enumeration order
    i,                \* index of the file the first loop is at
    k,                \* index of the manifest entry the second loop is at
    fingerprints,     \* the loaded manifest, with the __processed marks
    newFingerprints,  \* the manifest being built
    calls,            \* the remote calls this pass has issued, in order
    thrown,           \* the error writeBundle rejected with ("" if none)
    passes,           \* history: passes started
    repeat,           \* history: the previous pass completed and the
                      \*   output directory is as that pass saw it
    afterAbort,       \* history: the previous pass aborted
    lastWritten,      \* history: manifest of the last completed pass
    prevWritten,      \* history: manifest of the completed pass before it
    lastResult,       \* history: how the last finished pass ended
    opCount,          \* history: deletes/tags the store applied, per name
    startManifest,    \* history: the manifest object as the pass found it,
                      \*   <<>> when there was none
    probe             \* the last direct call of normalizeKey: its key and result

vars == <<options, deleteUseTag, local, bucket, pc, files, i, k, fingerprints,
          newFingerprints, calls, thrown, passes, repeat, afterAbort,
          lastWritten, prevWritten, lastResult, opCount, startManifest, probe>>

----------------------------------------------------------------------------
\* Strings

StartsWith(s, p) == Len(s) >= Len(p) /\ SubSeq(s, 1, Len(p)) = p

EndsWith(s, p) == Len(s) >= Len(p) /\ SubSeq(s, Len(s) - Len(p) + 1, Len(s)) = p

\* String.prototype.slice(0, -n)
SliceOffEnd(s, n) == SubSeq(s, 1, Len(s) - n)

\* path.relative(from, to) for a file below the directory `from`
Relative(from, to) == SubSeq(to, Len(from) + 2, Len(to))

\* Index of the last "." of s, 0 if there is none.
RECURSIVE LastDot(_, _)
LastDot(s, n) ==
    IF n = 0 THEN 0
    ELSE IF SubSeq(s, n, n) = "." THEN n
    ELSE IF SubSeq(s, n, n) = "/" THEN 0
    ELSE LastDot(s, n - 1)

\* path.extname: from the last "." of the base name to the end; "" when the
\* base name has no "." or only a leading one.
extname(path) ==
    LET d == LastDot(path, Len(path)) IN
    IF d <= 1 \/ SubSeq(path, d - 1, d - 1) = "/" THEN ""
    ELSE SubSeq(path, d, Len(path))

\* mime.lookup on an extension: the type, or "false" when unknown.
MimeLookup(ext) ==
    CASE ext = ".html" -> "text/html"
      [] ext = ".json" -> "application/json"
      [] ext = ".js"   -> "application/javascript"
      [] OTHER         -> "false"

----------------------------------------------------------------------------
\* Bytes, hashes, JSON

\* readFile(path): the raw bytes of a local file.
RawBytes(c) == [kind |-> "raw", data |-> c, entries |-> <<>>]

\* gzipAsync(data)
Gzip(b) == [kind |-> "gzip", data |-> b.data, entries |-> <<>>]

\* createHash('sha256').update(data).digest('hex'): injective on contents.
Sha256Hex(b) == "sha256(" \o b.data \o ")"

\* hash(path)
hash(path) == Sha256Hex(RawBytes(local[Relative(OutDir, path)]))

\* JSON.stringify(newFingerprints): the own enumerable properties, in
\* insertion order; every entry of newFingerprints is { hash }.
JsonStringify(map) ==
    [kind |-> "json", data |-> "",
     entries |-> [j \in 1..Len(map) |-> [name |-> map[j].name, hash |-> map[j].hash]]]

\* Variant: bytes that are not JSON text parse to an empty object.
IsJsonTextLenient(b) == TRUE

\* JSON.parse throws a SyntaxError on bytes that are not JSON text.
IsJsonText(b) == b.kind = "json"

\* JSON.parse(...) as FileFingerprintMap: __processed is undefined.
JsonParse(b) ==
    [j \in 1..Len(b.entries) |->
        [name |-> b.entries[j].name, hash |-> b.entries[j].hash, processed |-> FALSE]]

----------------------------------------------------------------------------
\* FileFingerprintMap: an object, as the sequence of its properties in
\* insertion order.

Has(map, name) == \E j \in 1..Len(map) : map[j].name = name

IndexOf(map, name) == CHOOSE j \in 1..Len(map) : map[j].name = name

\* fingerprints[name]?.hash, "undefined" when there is no such property
HashOf(map, name) ==
    IF Has(map, name) THEN map[IndexOf(map, name)].hash ELSE "undefined"

Names(map) == {map[j].name : j \in 1..Len(map)}

AsMapping(map) == {<<map[j].name, map[j].hash>> : j \in 1..Len(map)}

----------------------------------------------------------------------------
\* The code of writeBundle and of Client, operator by operator

\* Client.normalizeKey
normalizeKey(key) ==
    options.s3.prefix \o (IF StartsWith(key, "/") THEN key ELSE "/" \o key)

\* if (options.deleteUseTag): an object is truthy, a string unless empty
IsTruthyTag(raw) == raw.type = "object" \/ (raw.type = "string" /\ raw.text # "")

\* Variant: the string form is not taken up.
ResolveDeleteUseTagObjectOnly(raw) ==
    IF raw.type = "object" THEN <<[key |-> raw.key, value |-> raw.value]>> ELSE <<>>

\* deploy: deleteUseTag from options.deleteUseTag
ResolveDeleteUseTag(raw) ==
    IF IsTruthyTag(raw)
    THEN IF raw.type = "string"
         THEN <<[key |-> raw.text, value |-> raw.text]>>
         ELSE <<[key |-> raw.key, value |-> raw.value]>>
    ELSE <<>>

\* Variant: only the key of the delete-tag is required.
DeleteTagErrorKeyOnly(tag) ==
    IF tag # <<>> /\ tag[1].key = "" THEN "deleteUseTag.key is required" ELSE ""

\* deploy: the delete-tag needs a key and a value
DeleteTagError(tag) ==
    IF tag = <<>> THEN ""
    ELSE IF tag[1].key = "" THEN "deleteUseTag.key is required"
    ELSE IF tag[1].value = "" THEN "deleteUseTag.value is required"
    ELSE ""

S3Fields == {"accessKeyId", "secretAccessKey", "bucket", "region", "endpoint", "prefix"}

\* deploy: every s3 field is required; a field left out or empty reads ""
S3Error(s3) ==
    IF \E f \in S3Fields : s3[f] = "" THEN "s3 options are required" ELSE ""

\* \w of the placeholder pattern
WordChars ==
    {"a", "b", "c", "d", "e", "f", "g", "h", "i", "j", "k", "l", "m",
     "n", "o", "p", "q", "r", "s", "t", "u", "v", "w", "x", "y", "z",
     "A", "B", "C", "D", "E", "F", "G", "H", "I", "J", "K", "L", "M",
     "N", "O", "P", "Q", "R", "S", "T", "U", "V", "W", "X", "Y", "Z",
     "0", "1", "2", "3", "4", "5", "6", "7", "8", "9", "_"}

CharAt(s, p) == SubSeq(s, p, p)

\* The first position at or after p that holds no word character
RECURSIVE WordEnd(_, _)
WordEnd(s, p) ==
    IF p > Len(s) \/ CharAt(s, p) \notin WordChars THEN p ELSE WordEnd(s, p + 1)

\* options.s3[key]: <<value>> for a string, <<>> for anything else
S3Lookup(s3, key) == IF key \in S3Fields THEN <<s3[key]>> ELSE <<>>

\* endpoint.replace(/\{(\w+)\}/g, ...) from position p on: the text with
\* every placeholder replaced, or the error of the first one that is no string
RECURSIVE ReplacePlaceholders(_, _, _)
ReplacePlaceholders(s, p, s3) ==
    IF p > Len(s) THEN [error |-> "", text |-> ""]
    ELSE LET q == WordEnd(s, p + 1)
             isMatch == /\ CharAt(s, p) = "{"
                        /\ q > p + 1
                        /\ q <= Len(s)
                        /\ CharAt(s, q) = "}"
         IN IF isMatch
            THEN LET key == SubSeq(s, p + 1, q - 1)
                     value == S3Lookup(s3, key)
                 IN IF value = <<>>
                    THEN [error |-> "s3." \o key \o " is required", text |-> ""]
                    ELSE LET rest == ReplacePlaceholders(s, q + 1, s3)
                         IN [error |-> rest.error, text |-> value[1] \o rest.text]
            ELSE LET rest == ReplacePlaceholders(s, p + 1, s3)
                 IN [error |-> rest.error, text |-> CharAt(s, p) \o rest.text]

\* deploy: the resolved endpoint
EndpointError(s3) ==
    LET r == ReplacePlaceholders(s3.endpoint, 1, s3)
    IN IF r.error # "" THEN r.error
       ELSE IF ~StartsWith(r.text, "https://") THEN "endpoint must be a valid url"
       ELSE ""

\* deploy: the error the construction throws, "" when it returns the plugin
ConfigError(opts) ==
    LET tagError == DeleteTagError(ResolveDeleteUseTag(opts.deleteUseTag))
        s3Error == S3Error(opts.s3)
    IN IF tagError # "" THEN tagError
       ELSE IF s3Error # "" THEN s3Error
       ELSE EndpointError(opts.s3)

\* name = normalizePath(relative(_outDir, file)), less a trailing ".html"
\* when cleanHtmlSuffix is set
LogicalName(file) ==
    LET name == Relative(OutDir, file) IN
    IF options.cleanHtmlSuffix /\ EndsWith(name, ".html")
    THEN SliceOffEnd(name, 5)
    ELSE name

\* Variant: the mark is never set.
MarkProcessedNever(map, name) == map

\* if (fingerprints[name]) fingerprints[name].__processed = true
MarkProcessed(map, name) ==
    [j \in 1..Len(map) |->
        IF map[j].name = name THEN [map[j] EXCEPT !.processed = TRUE] ELSE map[j]]

\* Variant: an existing property keeps its first value.
SetFingerprintKeepFirst(map, name, h) ==
    IF Has(map, name) THEN map ELSE Append(map, [name |-> name, hash |-> h])

\* newFingerprints[name] = { hash: h }: an existing property keeps its place
SetFingerprint(map, name, h) ==
    IF Has(map, name)
    THEN [map EXCEPT ![IndexOf(map, name)] = [name |-> name, hash |-> h]]
    ELSE Append(map, [name |-> name, hash |-> h])

\* Variant: a name the manifest does not have is not uploaded.
NeedsUploadOnlyChanged(map, name, h) == Has(map, name) /\ HashOf(map, name) # h

\* fingerprints[name]?.hash !== h
NeedsUpload(map, name, h) == HashOf(map, name) # h

\* Variant: the mark is not consulted.
IsStaleAlways(entry) == TRUE

\* if (!fingerprints[key].__processed)
IsStale(entry) == ~entry.processed

\* !file.endsWith('.html') && options.gzip
\* Variant: .html documents are compressed like every other file.
CompressesEveryFile(file) == options.gzip

\* if (!file.endsWith('.html') && options.gzip)
Compresses(file) == ~EndsWith(file, ".html") /\ options.gzip

\* Variant: the metadata is derived from the logical name.
getFileMetaOfName(file) ==
    LET name == LogicalName(file)
        contentType == MimeLookup(extname(name)) IN
    [contentType     |-> IF contentType # "false" THEN contentType
                         ELSE "application/octet-stream",
     cacheControl    |-> IF ~EndsWith(name, ".html")
                         THEN "public, max-age=31536000, immutable"
                         ELSE "undefined",
     acl             |-> "public-read",
     contentEncoding |-> "undefined"]

\* getFileMeta(file), then meta.contentEncoding = 'gzip' when compressed
getFileMeta(file) ==
    LET contentType == MimeLookup(extname(file)) IN
    [contentType     |-> IF contentType # "false" THEN contentType
                         ELSE "application/octet-stream",
     cacheControl    |-> IF ~EndsWith(file, ".html")
                         THEN "public, max-age=31536000, immutable"
                         ELSE "undefined",
     acl             |-> "public-read",
     contentEncoding |-> "undefined"]

UploadMeta(file) ==
    IF Compresses(file)
    THEN [getFileMeta(file) EXCEPT !.contentEncoding = "gzip"]
    ELSE getFileMeta(file)

UploadBody(file) ==
    LET data == RawBytes(local[Relative(OutDir, file)]) IN
    IF Compresses(file) THEN Gzip(data) ELSE data

\* The options of the manifest's put
ManifestMeta ==
    [contentType |-> "application/json", cacheControl |-> "undefined",
     acl |-> "private", contentEncoding |-> "undefined"]

\* Variant: only a missing object is answered with undefined.
GetSwallowsOnlyMissing(err) == err = "NoSuchKey"

\* Client.get: the errors answered with undefined instead of rethrown
GetSwallows(err) == err \in {"NoSuchKey", "AccessDenied"}

\* Client.tag: the errors swallowed instead of rethrown
TagSwallows(err) == err = "NoSuchKey"

\* Client.del: no try/catch, every error propagates
DelSwallows(err) == FALSE

----------------------------------------------------------------------------
\* The store (S3), at the boundary Client calls it through

Present(key) == key \in DOMAIN bucket

\* What the store may answer to each call; "error" is any failure other than
\* the named ones (network, credentials, permissions).
GetAnswers(key) ==
    IF Present(key) THEN {"ok", "AccessDenied", "error"}
    ELSE {"NoSuchKey", "AccessDenied", "error"}

PutAnswers == {"ok", "error"}

DelAnswers(key) ==
    IF Present(key) THEN {"ok", "error"} ELSE {"ok", "NoSuchKey", "error"}

TagAnswers(key) ==
    IF Present(key) THEN {"ok", "error"} ELSE {"NoSuchKey", "error"}

\* putObject: the object is replaced whole, its tags included
PutObject(key, body, meta) ==
    [o \in DOMAIN bucket \cup {key} |->
        IF o = key
        THEN [body |-> body, contentType |-> meta.contentType,
              cacheControl |-> meta.cacheControl, acl |-> meta.acl,
              contentEncoding |-> meta.contentEncoding, tags |-> {}]
        ELSE bucket[o]]

\* deleteObject
DeleteObject(key) == [o \in DOMAIN bucket \ {key} |-> bucket[o]]

\* putObjectTagging: the object's tag set becomes the one given
PutObjectTagging(key, tagKey, tagValue) ==
    [bucket EXCEPT ![key].tags = {[Key |-> tagKey, Value |-> tagValue]}]

\* One entry of the pass's record of remote calls
Call(op, key, res, file, meta, tagKey, tagValue) ==
    [op |-> op, key |-> key, res |-> res, file |-> file,
     contentType |-> meta.contentType, acl |-> meta.acl,
     contentEncoding |-> meta.contentEncoding,
     tagKey |-> tagKey, tagValue |-> tagValue]

NoMeta ==
    [contentType |-> "", cacheControl |-> "", acl |-> "", contentEncoding |-> ""]

----------------------------------------------------------------------------
\* State space

LocalStates == UNION {[D -> Contents] : D \in SUBSET RelPaths}

\* The relative paths in the order of a directory walk.
WalkOrder == <<"about", "about.html", "fingerprints.json">>

Reverse(seq) == [j \in 1..Len(seq) |-> seq[Len(seq) + 1 - j]]

\* fast-glob's result: the regular files below the output directory, as
\* absolute paths.  The library does not specify the order: the walk's order
\* and its reverse are modelled, so that either of two files may come first.
Enumerations ==
    LET IsPresent(p) == p \in DOMAIN local
        Absolute(seq) == [j \in 1..Len(seq) |-> OutDir \o "/" \o seq[j]]
    IN {Absolute(SelectSeq(WalkOrder, IsPresent)),
        Absolute(SelectSeq(Reverse(WalkOrder), IsPresent))}

EmptyBucket == <<>>

\* A bucket whose manifest object holds bytes that are not JSON text
CorruptManifestBucket ==
    [o \in {normalizeKey("fingerprints.json")} |->
        [body |-> RawBytes("c1"), contentType |-> "application/json",
         cacheControl |-> "undefined", acl |-> "private",
         contentEncoding |-> "undefined", tags |-> {}]]

\* A bucket as an earlier deployment of the single file "about" (contents
\* "c1", gzip as `gz`) left it: the asset and the manifest naming it.
DeployedBucket(gz) ==
    LET file  == OutDir \o "/about"
        meta  == getFileMeta(file)
        asset == [body |-> IF gz THEN Gzip(RawBytes("c1")) ELSE RawBytes("c1"),
                  contentType |-> meta.contentType,
                  cacheControl |-> meta.cacheControl, acl |-> meta.acl,
                  contentEncoding |-> IF gz THEN "gzip" ELSE "undefined",
                  tags |-> {}]
        manifest == [body |-> JsonStringify(<<[name |-> "about",
                                               hash |-> Sha256Hex(RawBytes("c1"))]>>),
                     contentType |-> ManifestMeta.contentType,
                     cacheControl |-> ManifestMeta.cacheControl,
                     acl |-> ManifestMeta.acl,
                     contentEncoding |-> ManifestMeta.contentEncoding,
                     tags |-> {}]
    IN [o \in {normalizeKey("about"), normalizeKey("fingerprints.json")} |->
            IF o = normalizeKey("about") THEN asset ELSE manifest]

\* The part of the initial state that does not depend on the configuration
InitPass ==
    /\ files = <<>>
    /\ i = 1
    /\ k = 1
    /\ fingerprints = <<>>
    /\ newFingerprints = <<>>
    /\ calls = <<>>
    /\ thrown = ""
    /\ passes = 0
    /\ repeat = FALSE
    /\ afterAbort = FALSE
    /\ lastWritten = <<>>
    /\ prevWritten = <<>>
    /\ lastResult = "none"
    /\ opCount = [n \in {} |-> 0]
    /\ startManifest = <<>>
    /\ probe = [key |-> "", result |-> ""]

Init ==
    /\ options \in [s3 : {ValidS3}, cleanHtmlSuffix : BOOLEAN, gzip : BOOLEAN,
                     deleteUseTag : {NoTagOption, StringTagOption("stale")}]
    /\ deleteUseTag = ResolveDeleteUseTag(options.deleteUseTag)
    /\ local \in LocalStates
    /\ bucket \in {EmptyBucket, CorruptManifestBucket, DeployedBucket(options.gzip)}
    /\ pc = "idle"
    /\ InitPass

\* Every form of the delete-tag option, without suffix stripping and gzip
InitTag ==
    /\ options \in [s3 : {ValidS3}, cleanHtmlSuffix : {FALSE}, gzip : {FALSE},
                     deleteUseTag : {NoTagOption, StringTagOption(""),
                                     StringTagOption("stale"),
                                     ObjectTagOption("expire", "yes")}]
    /\ deleteUseTag = ResolveDeleteUseTag(options.deleteUseTag)
    /\ local \in LocalStates
    /\ bucket \in {EmptyBucket, DeployedBucket(FALSE)}
    /\ pc = "idle"
    /\ InitPass

----------------------------------------------------------------------------
\* writeBundle

\* The next property of `map`, from index `from` on, that the second loop
\* acts on; Len(map) + 1 when the loop is over.
FirstStale(map, from) ==
    IF \E j \in from..Len(map) : IsStale(map[j])
    THEN CHOOSE j \in from..Len(map) :
            /\ IsStale(map[j])
            /\ \A m \in from..(j - 1) : ~IsStale(map[m])
    ELSE Len(map) + 1

\* Where writeBundle stands with the first loop at file i2 and the loaded
\* manifest `map`: in the first loop, in the second, or at the final put.
PcAfter(i2, map) ==
    IF i2 <= Len(files) THEN "files"
    ELSE IF FirstStale(map, 1) <= Len(map) THEN "stale"
    ELSE "putManifest"

\* Variant: a pass whose second loop acted ends without the final put.
PcAfterStaleNoPut(k2) == IF k2 <= Len(fingerprints) THEN "stale" ELSE "done"

\* Where writeBundle stands with the second loop at property k2
PcAfterStale(k2) == IF k2 <= Len(fingerprints) THEN "stale" ELSE "putManifest"

Bump(count, key) ==
    [n \in DOMAIN count \cup {key} |->
        IF n = key THEN (IF n \in DOMAIN count THEN count[n] + 1 ELSE 1)
        ELSE count[n]]

\* The build rewrites the output directory between two passes.
Build ==
    /\ pc \in {"idle", "done", "failed"}
    /\ passes < MaxPasses
    /\ local' \in LocalStates \ {local}
    /\ pc' = "idle"
    /\ files' = <<>>
    /\ i' = 1
    /\ k' = 1
    /\ fingerprints' = <<>>
    /\ newFingerprints' = <<>>
    /\ calls' = <<>>
    /\ thrown' = ""
    /\ UNCHANGED <<probe, options, deleteUseTag, bucket, passes, repeat, afterAbort,
                   lastWritten, prevWritten, lastResult, opCount, startManifest>>

\* writeBundle is invoked: new Client, files = await getFiles()
GetFiles ==
    /\ pc \in {"idle", "done", "failed"}
    /\ passes < MaxPasses
    /\ files' \in Enumerations
    /\ pc' = "getJson"
    /\ i' = 1
    /\ k' = 1
    /\ fingerprints' = <<>>
    /\ newFingerprints' = <<>>
    /\ calls' = <<>>
    /\ thrown' = ""
    /\ passes' = passes + 1
    /\ repeat' = (pc = "done")
    /\ afterAbort' = (lastResult = "failed")
    /\ startManifest' = IF Present(normalizeKey("fingerprints.json"))
                        THEN <<bucket[normalizeKey("fingerprints.json")]>>
                        ELSE <<>>
    /\ UNCHANGED <<probe, options, deleteUseTag, local, bucket, lastWritten,
                   prevWritten, lastResult, opCount>>

\* fingerprints = (await client.getJson('fingerprints.json')) ?? {}
GetJson ==
    /\ pc = "getJson"
    /\ LET key == normalizeKey("fingerprints.json") IN
       \E res \in GetAnswers(key) :
          /\ calls' = Append(calls, Call("get", key, res, "", NoMeta, "", ""))
          /\ IF res = "ok"
             THEN IF IsJsonText(bucket[key].body)
                  THEN /\ fingerprints' = JsonParse(bucket[key].body)
                       /\ pc' = PcAfter(1, fingerprints')
                       /\ UNCHANGED <<thrown, lastResult>>
                  ELSE /\ pc' = "failed"
                       /\ thrown' = "SyntaxError"
                       /\ lastResult' = "failed"
                       /\ UNCHANGED fingerprints
             ELSE IF GetSwallows(res)
                  THEN /\ fingerprints' = <<>>
                       /\ pc' = PcAfter(1, fingerprints')
                       /\ UNCHANGED <<thrown, lastResult>>
                  ELSE /\ pc' = "failed"
                       /\ thrown' = res
                       /\ lastResult' = "failed"
                       /\ UNCHANGED fingerprints
    /\ UNCHANGED <<probe, options, deleteUseTag, local, bucket, files, i, k,
                   newFingerprints, passes, repeat, afterAbort, lastWritten,
                   prevWritten, opCount, startManifest>>

\* One iteration of for (const file of files)
ProcessFile ==
    /\ pc = "files"
    /\ LET file == files[i]
           name == LogicalName(file)
           h    == hash(file)
       IN
       /\ fingerprints' = MarkProcessed(fingerprints, name)
       /\ newFingerprints' = SetFingerprint(newFingerprints, name, h)
       /\ IF NeedsUpload(fingerprints, name, h)
          THEN \E res \in PutAnswers :
                 /\ calls' = Append(calls, Call("put", normalizeKey(name), res,
                                                file, UploadMeta(file), "", ""))
                 /\ IF res = "ok"
                    THEN /\ bucket' = PutObject(normalizeKey(name),
                                                UploadBody(file), UploadMeta(file))
                         /\ i' = i + 1
                         /\ pc' = PcAfter(i', fingerprints')
                         /\ UNCHANGED <<thrown, lastResult>>
                    ELSE /\ pc' = "failed"
                         /\ thrown' = res
                         /\ lastResult' = "failed"
                         /\ UNCHANGED <<bucket, i>>
          ELSE /\ i' = i + 1
               /\ pc' = PcAfter(i', fingerprints')
               /\ UNCHANGED <<bucket, calls, thrown, lastResult>>
    /\ UNCHANGED <<probe, options, deleteUseTag, local, files, k, passes, repeat,
                   afterAbort, lastWritten, prevWritten, opCount, startManifest>>

\* One acting iteration of for (const key in fingerprints): the next
\* property without __processed is tagged or deleted
DeleteStale ==
    /\ pc = "stale"
    /\ LET at  == FirstStale(fingerprints, k)
           key == fingerprints[at].name
           obj == normalizeKey(key)
       IN
       /\ IF deleteUseTag # <<>>
          THEN \E res \in TagAnswers(obj) :
                 /\ opCount' = IF res = "ok" THEN Bump(opCount, key) ELSE opCount
                 /\ calls' = Append(calls, Call("tag", obj, res, "", NoMeta,
                                deleteUseTag[1].key, deleteUseTag[1].value))
                 /\ IF res = "ok" \/ TagSwallows(res)
                    THEN /\ bucket' = IF res = "ok"
                                      THEN PutObjectTagging(obj, deleteUseTag[1].key,
                                                            deleteUseTag[1].value)
                                      ELSE bucket
                         /\ k' = FirstStale(fingerprints, at + 1)
                         /\ pc' = PcAfterStale(k')
                         /\ UNCHANGED <<thrown, lastResult>>
                    ELSE /\ pc' = "failed"
                         /\ thrown' = res
                         /\ lastResult' = "failed"
                         /\ UNCHANGED <<bucket, k>>
          ELSE \E res \in DelAnswers(obj) :
                 /\ opCount' = IF res = "ok" THEN Bump(opCount, key) ELSE opCount
                 /\ calls' = Append(calls, Call("del", obj, res, "", NoMeta, "", ""))
                 /\ IF res = "ok" \/ DelSwallows(res)
                    THEN /\ bucket' = IF res = "ok" THEN DeleteObject(obj) ELSE bucket
                         /\ k' = FirstStale(fingerprints, at + 1)
                         /\ pc' = PcAfterStale(k')
                         /\ UNCHANGED <<thrown, lastResult>>
                    ELSE /\ pc' = "failed"
                         /\ thrown' = res
                         /\ lastResult' = "failed"
                         /\ UNCHANGED <<bucket, k>>
    /\ UNCHANGED <<probe, options, deleteUseTag, local, files, i, fingerprints,
                   newFingerprints, passes, repeat, afterAbort, lastWritten,
                   prevWritten, startManifest>>

\* await client.put('fingerprints.json', JSON.stringify(newFingerprints), ...)
PutManifest ==
    /\ pc = "putManifest"
    /\ LET key == normalizeKey("fingerprints.json") IN
       \E res \in PutAnswers :
          /\ calls' = Append(calls, Call("put", key, res, "", ManifestMeta, "", ""))
          /\ IF res = "ok"
             THEN /\ bucket' = PutObject(key, JsonStringify(newFingerprints),
                                         ManifestMeta)
                  /\ pc' = "done"
                  /\ lastResult' = "done"
                  /\ prevWritten' = lastWritten
                  /\ lastWritten' = JsonStringify(newFingerprints).entries
                  /\ UNCHANGED thrown
             ELSE /\ pc' = "failed"
                  /\ thrown' = res
                  /\ lastResult' = "failed"
                  /\ UNCHANGED <<bucket, prevWritten, lastWritten>>
    /\ UNCHANGED <<probe, options, deleteUseTag, local, files, i, k, fingerprints,
                   newFingerprints, passes, repeat, afterAbort, opCount,
                   startManifest>>

Next ==
    \/ Build
    \/ GetFiles
    \/ GetJson
    \/ ProcessFile
    \/ DeleteStale
    \/ PutManifest

Spec == Init /\ [][Next]_vars

SpecTag == InitTag /\ [][Next]_vars

\* A single writer on a bucket that starts empty
InitEmpty ==
    /\ options \in [s3 : {ValidS3}, cleanHtmlSuffix : BOOLEAN, gzip : BOOLEAN,
                     deleteUseTag : {NoTagOption, StringTagOption("stale")}]
    /\ deleteUseTag = ResolveDeleteUseTag(options.deleteUseTag)
    /\ local \in LocalStates
    /\ bucket = EmptyBucket
    /\ pc = "idle"
    /\ InitPass

\* The step does not end the pass with an error
Succeeds == lastResult' # "failed"

\* The passes in which no remote call fails the pass
NextOk ==
    \/ Build
    \/ GetFiles
    \/ GetJson /\ Succeeds
    \/ ProcessFile /\ Succeeds
    \/ DeleteStale /\ Succeeds
    \/ PutManifest /\ Succeeds

SpecOk == InitEmpty /\ [][NextOk]_vars

----------------------------------------------------------------------------
\* deploy(options): the construction of the plugin

Endpoints ==
    {"https://{bucket}.example.com", "https://s3.example.com/",
     "https://{nope}.example.com", "https://{region}.{zone}.example.com",
     "http://{bucket}.example.com"}

\* s3 options: complete with each endpoint, or with one field left out
S3Inputs ==
    {[ValidS3 EXCEPT !.endpoint = e] : e \in Endpoints}
       \cup {[ValidS3 EXCEPT ![f] = ""] : f \in S3Fields}

TagInputs ==
    {NoTagOption, StringTagOption(""), StringTagOption("stale"),
     ObjectTagOption("expire", "yes"), ObjectTagOption("", "yes"),
     ObjectTagOption("expire", "")}

InitDeploy ==
    /\ options \in [s3 : S3Inputs, cleanHtmlSuffix : {FALSE}, gzip : {FALSE},
                     deleteUseTag : TagInputs]
    /\ deleteUseTag = <<>>
    /\ local \in LocalStates
    /\ bucket = EmptyBucket
    /\ pc = "deploy"
    /\ InitPass

\* deploy(options) returns the plugin or throws
Deploy ==
    /\ pc = "deploy"
    /\ LET error == ConfigError(options)
       IN /\ thrown' = error
          /\ pc' = IF error = "" THEN "idle" ELSE "configError"
          /\ deleteUseTag' = IF error = "" THEN ResolveDeleteUseTag(options.deleteUseTag)
                             ELSE <<>>
    /\ UNCHANGED <<probe, options, local, bucket, files, i, k, fingerprints, newFingerprints,
                   calls, passes, repeat, afterAbort, lastWritten, prevWritten,
                   lastResult, opCount, startManifest>>

NextDeploy == Deploy \/ Next

SpecDeploy == InitDeploy /\ [][NextDeploy]_vars

----------------------------------------------------------------------------
\* Client.normalizeKey applied to keys under every prefix

Prefixes ==
    {"site", "site/", "a/b", "a/b/", "s", "s/", "/site", "/site/", "assets", "assets/"}

KeyInputs ==
    {"about", "/about", "index.html", "/index.html", "a/b.js", "/a/b.js",
     "fingerprints.json", "/fingerprints.json", "x", "/x"}

InitKey ==
    /\ options \in [s3 : {[ValidS3 EXCEPT !.prefix = p] : p \in Prefixes},
                     cleanHtmlSuffix : {FALSE}, gzip : {FALSE},
                     deleteUseTag : {NoTagOption}]
    /\ deleteUseTag = <<>>
    /\ local \in {l \in LocalStates : DOMAIN l = {}}
    /\ bucket = EmptyBucket
    /\ pc = "idle"
    /\ InitPass

\* this.normalizeKey(key)
NormalizeKey ==
    /\ \E key \in KeyInputs : probe' = [key |-> key, result |-> normalizeKey(key)]
    /\ UNCHANGED <<options, deleteUseTag, local, bucket, pc, files, i, k, fingerprints,
                   newFingerprints, calls, thrown, passes, repeat, afterAbort,
                   lastWritten, prevWritten, lastResult, opCount, startManifest>>

SpecKey == InitKey /\ [][NormalizeKey]_vars

----------------------------------------------------------------------------
\* Vocabulary of the properties

ManifestObjectKey == normalizeKey("fingerprints.json")

Absolute(p) == OutDir \o "/" \o p

\* The logical names of the files in the output directory
LocalNames == {LogicalName(Absolute(p)) : p \in DOMAIN local}

\* No two local files map to the same logical name
NoSharedName ==
    \A p, q \in DOMAIN local :
        p # q => LogicalName(Absolute(p)) # LogicalName(Absolute(q))

CallIndexes == 1..Len(calls)

IsAssetPut(c) == c.op = "put" /\ c.file # ""

IsManifestPut(c) == c.op = "put" /\ c.file = ""

IsRemoval(c) == c.op \in {"del", "tag"}

\* An upload of `file` was issued in this pass
Attempted(file) == \E j \in CallIndexes : IsAssetPut(calls[j]) /\ calls[j].file = file

\* The fetch of this pass returned the stored manifest object
FetchedObject == Len(calls) >= 1 /\ calls[1].op = "get" /\ calls[1].res = "ok"

\* The previous pass completed, nothing changed locally since, and this
\* pass loaded the manifest object that pass wrote
SecondRun == repeat /\ FetchedObject

----------------------------------------------------------------------------
\* C1 (as stated): a pass that follows a completed pass with the local files
\* unchanged issues no asset upload, no delete and no tag, and writes a
\* manifest equal, as a mapping, to the one the first pass wrote.
C1_IdempotentAnyFiles ==
    SecondRun =>
        /\ \A j \in CallIndexes : ~IsAssetPut(calls[j]) /\ ~IsRemoval(calls[j])
        /\ pc = "done" => AsMapping(lastWritten) = AsMapping(prevWritten)

\* C1 (amended): the same, for local file sets in which no two files share a
\* logical name and a second pass that loads the manifest the first wrote.
C1_Idempotent ==
    (SecondRun /\ NoSharedName) =>
        /\ \A j \in CallIndexes : ~IsAssetPut(calls[j]) /\ ~IsRemoval(calls[j])
        /\ pc = "done" => AsMapping(lastWritten) = AsMapping(prevWritten)

C1_Witness ==
    /\ pc = "done"
    /\ SecondRun
    /\ NoSharedName
    /\ Cardinality(DOMAIN local) >= 2
    /\ Len(calls) = 2
    /\ lastWritten # <<>>

----------------------------------------------------------------------------
\* The loaded manifest has no entry with this file's name and current hash
DiffersFromManifest(file) ==
    ~\E j \in 1..Len(fingerprints) :
        /\ fingerprints[j].name = LogicalName(file)
        /\ fingerprints[j].hash = Sha256Hex(RawBytes(local[Relative(OutDir, file)]))

\* A file is uploaded if and only if the loaded manifest has no entry for its
\* logical name or the entry's hash differs from the file's SHA-256.
UploadedIffDiffers ==
    \A j \in 1..Len(files) :
        /\ Attempted(files[j]) => DiffersFromManifest(files[j])
        /\ (j < i /\ DiffersFromManifest(files[j])) => Attempted(files[j])

----------------------------------------------------------------------------
\* The entries of the manifest object now in the store
StoredManifest == bucket[ManifestObjectKey].body.entries

\* The last file of the enumeration with this logical name
LastWithName(name) ==
    CHOOSE j \in 1..Len(files) :
        /\ LogicalName(files[j]) = name
        /\ \A m \in (j + 1)..Len(files) : LogicalName(files[m]) # name

\* C3 (as stated): after a completed pass the stored manifest has exactly one
\* entry per local file, with that file's current hash, and no entry for a
\* name that is not locally present.
C3_OneEntryPerFile ==
    pc = "done" =>
        /\ \A p \in DOMAIN local :
              Cardinality({j \in 1..Len(StoredManifest) :
                  /\ StoredManifest[j].name = LogicalName(Absolute(p))
                  /\ StoredManifest[j].hash = Sha256Hex(RawBytes(local[p]))}) = 1
        /\ Names(StoredManifest) \subseteq LocalNames

\* C3 (amended): after a completed pass the stored manifest has exactly one
\* entry per logical name of a local file, with the hash of the last file of
\* the enumeration that has this name, and no entry for any other name.
C3_ManifestReflectsLocal ==
    pc = "done" =>
        /\ bucket[ManifestObjectKey].body.kind = "json"
        /\ Names(StoredManifest) = LocalNames
        /\ Len(StoredManifest) = Cardinality(LocalNames)
        /\ \A j \in 1..Len(StoredManifest) :
              StoredManifest[j].hash =
                Sha256Hex(RawBytes(local[Relative(OutDir,
                    files[LastWithName(StoredManifest[j].name)])]))

C3_Witness ==
    /\ pc = "done"
    /\ \E p, q \in DOMAIN local :
          /\ p # q
          /\ LogicalName(Absolute(p)) = LogicalName(Absolute(q))
          /\ local[p] # local[q]

----------------------------------------------------------------------------
\* The names of the loaded manifest that have no local file in this pass
StaleNames == Names(fingerprints) \ LocalNames

RemovalsOf(name) ==
    {j \in CallIndexes : IsRemoval(calls[j]) /\ calls[j].key = normalizeKey(name)}

\* C4 (as stated): a name of the previous manifest without a local file is
\* deleted (tagged) exactly once over the whole run of passes and is absent
\* from the manifest the pass writes.
C4_RemovedOnceEver ==
    pc = "done" =>
        \A n \in StaleNames :
            /\ n \in DOMAIN opCount /\ opCount[n] = 1
            /\ n \notin Names(StoredManifest)

\* C4 (amended): in every pass that completes, each name of the manifest the
\* pass loaded that has no local file is deleted (tagged, when a delete-tag
\* is configured) exactly once in that pass and is absent from the manifest
\* the pass writes; no other name is deleted or tagged.
C4_RemovedOncePerPass ==
    pc = "done" =>
        /\ \A n \in StaleNames :
              /\ Cardinality(RemovalsOf(n)) = 1
              /\ \A j \in RemovalsOf(n) :
                    calls[j].op = (IF deleteUseTag # <<>> THEN "tag" ELSE "del")
              /\ n \notin Names(lastWritten)
        /\ \A j \in CallIndexes :
              IsRemoval(calls[j]) =>
                 \E n \in StaleNames : calls[j].key = normalizeKey(n)

C4_Witness ==
    /\ pc = "done"
    /\ StaleNames # {}
    /\ \E n \in StaleNames : Cardinality(RemovalsOf(n)) = 1

----------------------------------------------------------------------------
\* The asset objects of the bucket: every object but the manifest
AssetKeys == DOMAIN bucket \ {ManifestObjectKey}

\* C5: when a pass aborted partway, the next pass that completes leaves, in
\* delete mode, exactly the local files of that pass in the bucket, each with
\* its current content.
C5_ReconciledAfterAbort ==
    (pc = "done" /\ afterAbort /\ deleteUseTag = <<>>
        /\ calls[1].res \in {"ok", "NoSuchKey"}) =>
        /\ AssetKeys = {normalizeKey(n) : n \in LocalNames} \ {ManifestObjectKey}
        /\ \A o \in AssetKeys :
              \E p \in DOMAIN local :
                 /\ o = normalizeKey(LogicalName(Absolute(p)))
                 /\ bucket[o].body.data = local[p]

----------------------------------------------------------------------------
\* A remote call that failed with an error Client rethrows
IsFatal(c) ==
    \/ c.res = "error"
    \/ c.op = "del" /\ c.res = "NoSuchKey"

ManifestObject ==
    IF Present(ManifestObjectKey) THEN <<bucket[ManifestObjectKey]>> ELSE <<>>

\* C6: a remote call that fails fatally is the last call of the pass, which
\* is aborted, and the manifest object is as it was before the pass.
C6_AbortLeavesManifest ==
    \A j \in CallIndexes :
        (calls[j].op \in {"get", "del", "tag"} \/ IsAssetPut(calls[j]))
        /\ IsFatal(calls[j])
        => /\ j = Len(calls)
           /\ pc = "failed"
           /\ ManifestObject = startManifest

----------------------------------------------------------------------------
\* C7: a not-found answer to the delete or the tag of a stale entry does not
\* abort the pass.
C7_NotFoundSwallowed ==
    \A j \in CallIndexes :
        (IsRemoval(calls[j]) /\ calls[j].res = "NoSuchKey")
        => ~(pc = "failed" /\ j = Len(calls))

----------------------------------------------------------------------------
\* C8: the manifest key is written only by the final manifest put
\* (application/json, private); it is never the target of an asset upload,
\* a delete or a tag.
C8_ManifestKeyReserved ==
    \A j \in CallIndexes :
        (calls[j].key = ManifestObjectKey /\ calls[j].op # "get")
        => /\ IsManifestPut(calls[j])
           /\ calls[j].contentType = "application/json"
           /\ calls[j].acl = "private"
           /\ j = Len(calls)

----------------------------------------------------------------------------
\* C9: a fetch answered with NoSuchKey or AccessDenied loads an empty
\* manifest: the pass goes on, uploads every local file, deletes and tags
\* nothing and writes the manifest; any other fetch failure aborts the pass
\* at the fetch.
C9_AbsentManifestIsEmpty ==
    Len(calls) >= 1 =>
        /\ calls[1].res \in {"NoSuchKey", "AccessDenied"} =>
              /\ fingerprints = <<>>
              /\ Len(calls) = 1 => pc # "failed"
              /\ \A j \in CallIndexes : ~IsRemoval(calls[j])
              /\ \A j \in 1..Len(files) : j < i => Attempted(files[j])
              /\ pc = "done" =>
                    /\ \A p \in DOMAIN local :
                          Cardinality({j \in CallIndexes :
                              /\ IsAssetPut(calls[j])
                              /\ calls[j].file = Absolute(p)
                              /\ calls[j].res = "ok"}) = 1
                    /\ IsManifestPut(calls[Len(calls)])
                    /\ calls[Len(calls)].res = "ok"
        /\ calls[1].res = "error" => (pc = "failed" /\ Len(calls) = 1)

C9_Witness ==
    /\ pc = "done"
    /\ calls[1].res = "AccessDenied"
    /\ startManifest # <<>>
    /\ Cardinality(DOMAIN local) >= 2

----------------------------------------------------------------------------
\* C10: when the manifest object exists and its bytes are not JSON text, the
\* pass fails with a parse error at the fetch, before any upload, delete,
\* tag or manifest write, and loads no manifest.
C10_CorruptManifestFails ==
    (FetchedObject /\ startManifest # <<>> /\ startManifest[1].body.kind # "json")
    => /\ pc = "failed"
       /\ thrown = "SyntaxError"
       /\ Len(calls) = 1
       /\ bucket[ManifestObjectKey] = startManifest[1]

C10_Witness ==
    /\ pc = "failed"
    /\ thrown = "SyntaxError"
    /\ DOMAIN local # {}

----------------------------------------------------------------------------
\* The tag the configuration asks for: a string s means key s and value s
ConfiguredTag ==
    LET raw == options.deleteUseTag IN
    IF raw.type = "string" /\ raw.text # "" THEN <<raw.text, raw.text>>
    ELSE IF raw.type = "object" THEN <<raw.key, raw.value>>
    ELSE <<>>

\* C11: every removal of a pass is a tag with the configured key and value
\* when a delete-tag is configured and a delete when none is, and a pass that
\* completes has taken exactly one such action for each stale entry.
C11_TagOrDelete ==
    /\ \A j \in CallIndexes :
          IsRemoval(calls[j]) =>
             IF ConfiguredTag # <<>>
             THEN /\ calls[j].op = "tag"
                  /\ <<calls[j].tagKey, calls[j].tagValue>> = ConfiguredTag
             ELSE calls[j].op = "del"
    /\ pc = "done" => \A n \in StaleNames : Cardinality(RemovalsOf(n)) = 1

C11_Witness ==
    /\ pc = "done"
    /\ options.deleteUseTag.type = "string"
    /\ \E j \in CallIndexes :
          /\ calls[j].op = "tag"
          /\ calls[j].tagKey = "stale"
          /\ calls[j].tagValue = "stale"
          /\ calls[j].res = "ok"

----------------------------------------------------------------------------
\* s contains sub
Contains(s, sub) ==
    \E p \in 1..Len(s) :
       p + Len(sub) - 1 <= Len(s) /\ SubSeq(s, p, p + Len(sub) - 1) = sub

MissingS3Option == \E f \in S3Fields : options.s3[f] = ""

EmptyTagPart ==
    /\ options.deleteUseTag.type = "object"
    /\ options.deleteUseTag.key = "" \/ options.deleteUseTag.value = ""

UnresolvedPlaceholder ==
    Contains(options.s3.endpoint, "{nope}") \/ Contains(options.s3.endpoint, "{zone}")

InvalidConfiguration == MissingS3Option \/ EmptyTagPart \/ UnresolvedPlaceholder

\* C12: under a configuration with a missing s3 option, a delete-tag with an
\* empty key or value, or an endpoint placeholder naming no configured string
\* field, the construction throws and no pass starts: no remote call is made.
C12_InvalidConfigNoCalls ==
    InvalidConfiguration =>
       /\ calls = <<>>
       /\ passes = 0
       /\ pc \in {"deploy", "configError"}
       /\ pc = "configError" => thrown # ""

C12_Witness ==
    /\ pc = "configError"
    /\ UnresolvedPlaceholder
    /\ ~MissingS3Option
    /\ ~EmptyTagPart
    /\ thrown = "s3.zone is required"

----------------------------------------------------------------------------
\* s without one trailing slash, s without one leading slash
DropTrailingSlash(s) == IF EndsWith(s, "/") THEN SubSeq(s, 1, Len(s) - 1) ELSE s

DropLeadingSlash(s) == IF StartsWith(s, "/") THEN SubSeq(s, 2, Len(s)) ELSE s

\* C13: normalizeKey returns the prefix, one slash and the key, whether or
\* not the prefix ends with a slash or the key starts with one.
C13_OneSeparatingSlash ==
    probe.key # "" =>
       probe.result = DropTrailingSlash(options.s3.prefix) \o "/"
                         \o DropLeadingSlash(probe.key)

----------------------------------------------------------------------------
\* The SHA-256 of what an object serves: its body, decoded when it is stored
\* with content-encoding gzip
ContentHash(object) ==
    IF object.body.kind = "raw" /\ object.contentEncoding # "gzip"
    THEN Sha256Hex(object.body)
    ELSE IF object.body.kind = "gzip" /\ object.contentEncoding = "gzip"
    THEN Sha256Hex(RawBytes(object.body.data))
    ELSE "sha256 of other bytes"

\* C14: on a bucket that started empty, after successful passes only, the
\* bucket holds for every entry of the stored manifest an object at that
\* name whose content has the hash the entry records.
C14_ManifestMatchesBucket ==
    pc = "done" =>
       \A j \in 1..Len(StoredManifest) :
          LET key == normalizeKey(StoredManifest[j].name) IN
          /\ Present(key)
          /\ ContentHash(bucket[key]) = StoredManifest[j].hash

\* C15: on a bucket that started empty, without a delete-tag and after
\* successful passes only, the asset keys of the bucket are the keys of the
\* logical names of the files of the last pass.
C15_BucketMatchesLocal ==
    (pc = "done" /\ deleteUseTag = <<>>) =>
       AssetKeys = {normalizeKey(n) : n \in LocalNames}

----------------------------------------------------------------------------
\* C16: the calls of a pass are, in this order, one fetch of the manifest,
\* the asset uploads, the deletes or tags, and in a pass that completes one
\* put of the manifest as the last call; that put is made also when nothing
\* was uploaded, and stores the empty mapping when there is no local file.
C16_PassShape ==
    /\ \A j \in CallIndexes :
          /\ calls[j].op = "get" <=> j = 1
          /\ calls[j].op = "get" => calls[j].key = ManifestObjectKey
          /\ IsManifestPut(calls[j]) => j = Len(calls)
          /\ IsAssetPut(calls[j]) => \A m \in 1..(j - 1) : ~IsRemoval(calls[m])
          /\ j < Len(calls) => calls[j].res = "ok" \/ GetSwallows(calls[j].res)
                                  \/ TagSwallows(calls[j].res)
    /\ pc \in {"files", "stale", "putManifest"} => Len(calls) >= 1
    /\ pc = "done" =>
          /\ Len(calls) >= 2
          /\ IsManifestPut(calls[Len(calls)])
          /\ calls[Len(calls)].res = "ok"
          /\ StoredManifest = JsonStringify(newFingerprints).entries
          /\ DOMAIN local = {} => StoredManifest = <<>>

C16_Witness ==
    /\ pc = "done"
    /\ \E j \in CallIndexes : IsAssetPut(calls[j])
    /\ \E j \in CallIndexes : IsRemoval(calls[j])

\* A pass that uploads nothing still writes the manifest
C16_WitnessNoChange ==
    /\ pc = "done"
    /\ Len(calls) = 2
    /\ DOMAIN local # {}

----------------------------------------------------------------------------
\* The logical names that two distinct local files share
SharedNames ==
    {LogicalName(Absolute(p)) : p \in {q \in DOMAIN local : \E r \in DOMAIN local :
        r # q /\ LogicalName(Absolute(r)) = LogicalName(Absolute(q))}}

\* The pass was ended by a remote call the store failed, or by a stored
\* manifest that does not parse
EndedByStoreOrManifest ==
    \/ thrown = "SyntaxError" /\ Len(calls) = 1 /\ calls[1].res = "ok"
    \/ thrown # "" /\ thrown # "SyntaxError" /\ calls[Len(calls)].res = thrown

\* C17: when two local files share a logical name, the shared name raises no
\* error of its own (a pass only fails on a failed remote call or a corrupt
\* manifest), and the manifest a completed pass stores has for that name one
\* entry, with the hash of the file that comes later in the enumeration.
C17_LaterFileWins ==
    SharedNames # {} =>
       /\ pc = "failed" => EndedByStoreOrManifest
       /\ pc = "done" =>
             \A n \in SharedNames :
                /\ Cardinality({j \in 1..Len(StoredManifest) :
                                   StoredManifest[j].name = n}) = 1
                /\ HashOf(StoredManifest, n) = hash(files[LastWithName(n)])

C17_Witness ==
    /\ pc = "done"
    /\ SharedNames # {}
    /\ \E n \in SharedNames :
          \E j \in 1..Len(files) :
             /\ LogicalName(files[j]) = n
             /\ hash(files[j]) # hash(files[LastWithName(n)])
             /\ HashOf(StoredManifest, n) = hash(files[LastWithName(n)])

----------------------------------------------------------------------------
\* The bytes of a local file as readFile returns them
LocalBytes(file) == RawBytes(local[Relative(OutDir, file)])

\* The last call of the pass is an upload the store has applied
JustUploaded ==
    /\ pc \in {"files", "stale", "putManifest"}
    /\ Len(calls) >= 1
    /\ IsAssetPut(calls[Len(calls)])
    /\ calls[Len(calls)].res = "ok"

\* C18: an upload is sent with content-encoding gzip and a compressed body
\* exactly when the gzip option is on and the file is no .html document, and
\* otherwise with the file's bytes and no content-encoding; a file whose hash
\* is the one the loaded manifest records for its name is not uploaded, and so
\* not compressed.
C18_GzipOnlyOnUpload ==
    /\ \A j \in CallIndexes :
          IsAssetPut(calls[j]) =>
             /\ calls[j].contentEncoding = "gzip"
                   <=> (options.gzip /\ ~EndsWith(calls[j].file, ".html"))
             /\ calls[j].contentEncoding \in {"gzip", "undefined"}
    /\ \A j \in CallIndexes : ~IsAssetPut(calls[j]) => calls[j].contentEncoding # "gzip"
    /\ JustUploaded =>
          LET c == calls[Len(calls)] IN
          /\ bucket[c.key].contentEncoding = c.contentEncoding
          /\ bucket[c.key].body =
                IF options.gzip /\ ~EndsWith(c.file, ".html")
                THEN Gzip(LocalBytes(c.file)) ELSE LocalBytes(c.file)
    /\ \A j \in 1..Len(files) :
          (pc # "idle" /\ ~DiffersFromManifest(files[j])) => ~Attempted(files[j])

C18_Witness ==
    /\ options.gzip
    /\ \E j \in CallIndexes :
          /\ IsAssetPut(calls[j])
          /\ EndsWith(calls[j].file, ".html")
          /\ calls[j].contentEncoding = "undefined"
    /\ JustUploaded
    /\ bucket[calls[Len(calls)].key].body.kind = "gzip"
    /\ \E j \in 1..Len(files) : j < i /\ ~Attempted(files[j])

----------------------------------------------------------------------------
\* The name a file is to be stored under: its path relative to the output
\* directory, without a trailing ".html" when cleanHtmlSuffix is on
StoredName(file) ==
    LET rel == SubSeq(file, Len(OutDir) + 2, Len(file)) IN
    IF options.cleanHtmlSuffix /\ EndsWith(rel, ".html")
    THEN SubSeq(rel, 1, Len(rel) - 5)
    ELSE rel

\* C19: a file is uploaded to and manifested under its relative path, less a
\* trailing ".html" when cleanHtmlSuffix is on and unchanged otherwise; the
\* upload of an .html file has content type text/html, no content-encoding
\* and no cache-control, also when it is stored without the suffix.
C19_SuffixStripping ==
    /\ \A j \in CallIndexes :
          IsAssetPut(calls[j]) =>
             /\ calls[j].key = options.s3.prefix \o "/" \o StoredName(calls[j].file)
             /\ EndsWith(calls[j].file, ".html") =>
                   /\ calls[j].contentType = "text/html"
                   /\ calls[j].contentEncoding = "undefined"
    /\ JustUploaded =>
          LET c == calls[Len(calls)] IN
          /\ bucket[c.key].contentType = c.contentType
          /\ bucket[c.key].cacheControl = "undefined" <=> EndsWith(c.file, ".html")
          /\ EndsWith(c.file, ".html") => bucket[c.key].body = LocalBytes(c.file)
    /\ pc \in {"files", "stale", "putManifest", "done"} =>
          Names(newFingerprints) = {StoredName(files[j]) : j \in 1..(i - 1)}
    /\ pc = "done" =>
          {StoredManifest[j].name : j \in 1..Len(StoredManifest)}
             = {StoredName(files[j]) : j \in 1..Len(files)}

C19_Witness ==
    /\ options.cleanHtmlSuffix
    /\ options.gzip
    /\ JustUploaded
    /\ calls[Len(calls)].file = Absolute("about.html")
    /\ calls[Len(calls)].key = "site/about"
    /\ bucket["site/about"].contentType = "text/html"
    /\ bucket["site/about"].cacheControl = "undefined"
    /\ Has(newFingerprints, "about")

----------------------------------------------------------------------------
\* The keys the pass has uploaded assets to, and those it has deleted or tagged
UploadedKeys == {calls[j].key : j \in {m \in CallIndexes : IsAssetPut(calls[m])}}

RemovedKeys == {calls[j].key : j \in {m \in CallIndexes : IsRemoval(calls[m])}}

\* C20: within a pass no name is both uploaded and deleted or tagged, and
\* every name deleted or tagged is an entry of the manifest the pass loaded
\* that has no local file in the pass.
C20_UploadedRemovedDisjoint ==
    /\ UploadedKeys \cap RemovedKeys = {}
    /\ \A key \in RemovedKeys :
          \E n \in Names(fingerprints) :
             /\ key = normalizeKey(n)
             /\ \A p \in DOMAIN local : LogicalName(Absolute(p)) # n

C20_Witness ==
    /\ UploadedKeys # {}
    /\ RemovedKeys # {}
    /\ FetchedObject
    /\ \E j \in CallIndexes : IsRemoval(calls[j]) /\ calls[j].res = "ok"

====
